---- MODULE Spec2Model ----
(***************************************************************************)
(* A model of product_faq_app.py: the FAQ parser / JSON-LD emitter         *)
(* (faqs_to_jsonld), the uniqueness checker (check_faq_uniqueness), the    *)
(* keyword extractor (extract_seo_keywords_from_serp), the prompt composer *)
(* (generate_product_faqs), the generation client                          *)
(* (generate_text_with_exception_handling) and the session logic of main.  *)
(*                                                                         *)
(* A Python str is a sequence of one-character strings.                    *)
(***************************************************************************)
EXTENDS Integers, Sequences, FiniteSets, TLC

VARIABLES
    faqs,          \* the generated text handed to a function under test
    serp_results,  \* the search results: organic items and related searches
    called,        \* which function has been applied ("none" before the call)
    qas,           \* faqs_to_jsonld: the local list of question/answer pairs
    ret,           \* the value the applied function returned
    request,       \* the arguments of generate_product_faqs
    prompt,        \* the prompt handed to the generation client
    api_key,       \* whether a Gemini key is at hand (sidebar or environment)
    pc,            \* where the running call or script run stands
    attempts,      \* how often the retry wrapper has run the client's body
    failures,      \* how many of these attempts the service failed
    product_faqs,  \* what the generation client returned
    session_state, \* st.session_state: last_input_state, product_faqs, jsonld, faqs_ready
    input_state,   \* main: the snapshot of the inputs of the current script run
    pressed,       \* main: whether the Generate button was pressed for this run
    parsed,        \* main: whether this run has called faqs_to_jsonld
    shown,         \* main: the FAQ lines rendered by this run, each flagged or not
    generated_in   \* history: the input snapshot of the run that stored product_faqs

funVars == <<faqs, called, qas, ret>>

genVars == <<request, prompt, api_key, pc, attempts, failures, product_faqs>>

mainVars == <<session_state, input_state, pressed, parsed, shown, generated_in>>

vars == <<faqs, serp_results, called, qas, ret,
          request, prompt, api_key, pc, attempts, failures, product_faqs,
          session_state, input_state, pressed, parsed, shown, generated_in>>

\* Python's None, kept apart from every str and list of the model (the text
\* "None" is the four characters N, o, n, e).
None == <<"None">>

NoRequest == [given |-> FALSE]

\* None where the other values are dicts.
NoneRecord == [is_none |-> TRUE]

\* lines 382-389: the session state of a session in which nothing was stored
EmptySession ==
    [last_input_state |-> NoneRecord,
     product_faqs |-> None,
     jsonld |-> NoneRecord,
     faqs_ready |-> FALSE]

(***************************************************************************)
(* Bounds of the model.                                                    *)
(***************************************************************************)
MaxLineLen == 6
MaxLines == 3
MaxFaqLen == 4
MaxOrganic == 2
MaxRelated == 1
MaxHashSeed == 2

(***************************************************************************)
(* Python str primitives.                                                  *)
(***************************************************************************)
Digits == {"0", "1", "2", "3", "4", "5", "6", "7", "8", "9"}

Whitespace == {" ", "\t", "\n", "\r"}

IsDigit(c) == c \in Digits

IsSpace(c) == c \in Whitespace

MinOf(S) == CHOOSE x \in S : \A y \in S : x <= y

MaxOf(S) == CHOOSE x \in S : \A y \in S : x >= y

\* str.strip(): leading and trailing whitespace removed
Strip(s) ==
    LET keep == {i \in 1..Len(s) : ~IsSpace(s[i])}
    IN  IF keep = {} THEN <<>> ELSE SubSeq(s, MinOf(keep), MaxOf(keep))

\* str.split(sep) for a one-character sep: always at least one part
Split(s, sep) ==
    LET cuts == {i \in 1..Len(s) : s[i] = sep}
        n == Cardinality(cuts)
        Cut(k) == IF k = 0 THEN 0
                  ELSE IF k = n + 1 THEN Len(s) + 1
                  ELSE CHOOSE i \in cuts : Cardinality({j \in cuts : j <= i}) = k
    IN  [k \in 1..(n + 1) |-> SubSeq(s, Cut(k - 1) + 1, Cut(k) - 1)]

(***************************************************************************)
(* faqs_to_jsonld, the numbered pattern                                    *)
(*     re.match(r"\d+\.\s*(.+?)\?\s*(.+)", line)                           *)
(* The line holds no "\n" (it comes from split('\n')), so "." matches any  *)
(* of its characters.                                                      *)
(***************************************************************************)
NoMatch == [matched |-> FALSE, question |-> <<>>, answer |-> <<>>]

\* \d+ : the length of the longest run of digits at the start of the line
DigitRun(line) ==
    LET stops == {i \in 1..Len(line) : ~IsDigit(line[i])}
    IN  IF stops = {} THEN Len(line) ELSE MinOf(stops) - 1

\* \s* from position from: the length of the longest run of whitespace
SpaceRun(line, from) ==
    LET stops == {i \in from..Len(line) : ~IsSpace(line[i])}
    IN  IF stops = {} THEN Len(line) - from + 1 ELSE MinOf(stops) - from

\* The ways (k, p) the pattern matches after "\d+\.": the first \s* takes k
\* characters, group 1 (.+?) is the non-empty line[from+k .. p-1], line[p] is
\* the "?", and "\s*(.+)" needs at least one character after it.
MatchWays(line, from) ==
    {kp \in (0..SpaceRun(line, from)) \X (1..Len(line)) :
        /\ kp[2] > from + kp[1]
        /\ line[kp[2]] = "?"
        /\ kp[2] < Len(line)}

\* Backtracking order: \s* is greedy (longest k first), then .+? is lazy
\* (nearest "?" first).
FirstWay(line, from) ==
    LET ways == MatchWays(line, from)
        k == MaxOf({kp[1] : kp \in ways})
        p == MinOf({kp[2] : kp \in {w \in ways : w[1] = k}})
    IN  <<k, p>>

\* group 2: the second \s* is greedy but leaves one character for (.+)
AnswerGroup(line, p) ==
    LET run == SpaceRun(line, p + 1)
        j == IF p + run = Len(line) THEN run - 1 ELSE run
    IN  SubSeq(line, p + 1 + j, Len(line))

\* The mutant of MatchLine that forgets to put the "?" back on the question.
MatchLineNoMark(line) ==
    LET d == DigitRun(line)
    IN  IF d = 0 \/ d + 1 > Len(line) THEN NoMatch
        ELSE IF line[d + 1] # "." THEN NoMatch
        ELSE IF MatchWays(line, d + 2) = {} THEN NoMatch
        ELSE LET kp == FirstWay(line, d + 2)
             IN  [matched |-> TRUE,
                  question |-> Strip(SubSeq(line, d + 2 + kp[1], kp[2] - 1)),
                  answer |-> Strip(AnswerGroup(line, kp[2]))]

\* lines 228-231: match, then question.strip() + "?" and answer.strip()
MatchLine(line) ==
    LET d == DigitRun(line)
    IN  IF d = 0 \/ d + 1 > Len(line) THEN NoMatch
        ELSE IF line[d + 1] # "." THEN NoMatch
        ELSE IF MatchWays(line, d + 2) = {} THEN NoMatch
        ELSE LET kp == FirstWay(line, d + 2)
             IN  [matched |-> TRUE,
                  question |-> Strip(SubSeq(line, d + 2 + kp[1], kp[2] - 1)) \o <<"?">>,
                  answer |-> Strip(AnswerGroup(line, kp[2]))]

Pair(m) == [question |-> m.question, answer |-> m.answer]

\* lines 226-231: one pair per matching line, appended in line order
RECURSIVE NumberedPairs(_, _)
NumberedPairs(lines, n) ==
    IF n = 0 THEN <<>>
    ELSE LET m == MatchLine(lines[n])
         IN  IF m.matched THEN Append(NumberedPairs(lines, n - 1), Pair(m))
             ELSE NumberedPairs(lines, n - 1)

\* lines 233-237: for i in range(0, len(parts)-1, 2), 0-based, so the 1-based
\* pairs are (parts[2k-1], parts[2k]) for 2k-1 <= len(parts)-1
FallbackPairs(text) ==
    LET parts == Split(text, "?")
        count == Len(parts) \div 2
    IN  [k \in 1..count |->
            [question |-> Strip(parts[2 * k - 1]) \o <<"?">>,
             answer |-> Strip(parts[2 * k])]]

\* The mutant of ParseFaqs that applies the split on "?" whether or not a line
\* matched, appending its pairs to the numbered ones.
ParseFaqsMerged(text) ==
    LET lines == Split(text, "\n")
    IN  NumberedPairs(lines, Len(lines)) \o FallbackPairs(text)

\* lines 226-237: the list qas when the document is built
ParseFaqs(text) ==
    LET lines == Split(text, "\n")
        numbered == NumberedPairs(lines, Len(lines))
    IN  IF numbered = <<>> THEN FallbackPairs(text) ELSE numbered

\* The mutant of JsonLd that fills name and text from the wrong fields.
JsonLdSwapped(pairs) ==
    [context |-> "https://schema.org",
     type |-> "FAQPage",
     mainEntity |->
        [i \in 1..Len(pairs) |->
            [type |-> "Question",
             name |-> pairs[i].answer,
             acceptedAnswer |-> [type |-> "Answer", text |-> pairs[i].question]]]]

\* lines 238-251: the FAQPage envelope around one Question per pair
JsonLd(pairs) ==
    [context |-> "https://schema.org",
     type |-> "FAQPage",
     mainEntity |->
        [i \in 1..Len(pairs) |->
            [type |-> "Question",
             name |-> pairs[i].question,
             acceptedAnswer |-> [type |-> "Answer", text |-> pairs[i].answer]]]]

(***************************************************************************)
(* The texts the parser is applied to.                                     *)
(***************************************************************************)
LineAlphabet == {"1", ".", " ", "a", "?"}

ShortLines == UNION {[1..n -> LineAlphabet] : n \in 0..MaxLineLen}

\* "1. a? a a "
LineNumbered == <<"1", ".", " ", "a", "?", " ", "a", " ", "a", " ">>

\* "12.a a ?a? a"
LineNumberedTwice == <<"1", "2", ".", "a", " ", "a", " ", "?", "a", "?", " ", "a">>

\* "a? a"
LineBare == <<"a", "?", " ", "a">>

\* "  a a"
LineContinuation == <<" ", " ", "a", " ", "a">>

LineBlank == <<>>

LinePool == {LineNumbered, LineNumberedTwice, LineBare, LineContinuation, LineBlank}

\* sep.join(parts[1..n])
RECURSIVE JoinWith(_, _, _)
JoinWith(parts, sep, n) ==
    IF n = 0 THEN <<>>
    ELSE IF n = 1 THEN parts[1]
    ELSE JoinWith(parts, sep, n - 1) \o sep \o parts[n]

Join(lines, n) == JoinWith(lines, <<"\n">>, n)

LongTexts ==
    {Join(ls, Len(ls)) : ls \in UNION {[1..n -> LinePool] : n \in 2..MaxLines}}

\* "What is X?Answer A.What is Y?Answer B."
FallbackExample ==
    <<"W", "h", "a", "t", " ", "i", "s", " ", "X", "?",
      "A", "n", "s", "w", "e", "r", " ", "A", ".",
      "W", "h", "a", "t", " ", "i", "s", " ", "Y", "?",
      "A", "n", "s", "w", "e", "r", " ", "B", ".">>

\* "1. Are they waterproof? Yes, IPX5 rated.\n2. Battery life? Up to 8 hours.\n3. Warranty? One year."
EndToEndExample ==
    <<"1", ".", " ", "A", "r", "e", " ", "t", "h", "e", "y", " ",
      "w", "a", "t", "e", "r", "p", "r", "o", "o", "f", "?", " ",
      "Y", "e", "s", ",", " ", "I", "P", "X", "5", " ", "r", "a", "t", "e", "d", ".", "\n",
      "2", ".", " ", "B", "a", "t", "t", "e", "r", "y", " ", "l", "i", "f", "e", "?", " ",
      "U", "p", " ", "t", "o", " ", "8", " ", "h", "o", "u", "r", "s", ".", "\n",
      "3", ".", " ", "W", "a", "r", "r", "a", "n", "t", "y", "?", " ",
      "O", "n", "e", " ", "y", "e", "a", "r", ".">>

Texts == ShortLines \cup LongTexts \cup {FallbackExample, EndToEndExample}

(***************************************************************************)
(* SpecParse: faqs_to_jsonld applied to one text.                          *)
(***************************************************************************)
NoSerp == [organic |-> <<>>, relatedSearches |-> <<>>]

\* The variables of main where no script runs.
MainIdle ==
    /\ session_state = EmptySession
    /\ input_state = NoneRecord
    /\ pressed = FALSE
    /\ parsed = FALSE
    /\ shown = <<>>
    /\ generated_in = NoneRecord

\* The generation variables where no generation is under way.
GenIdle ==
    /\ request = NoRequest
    /\ prompt = None
    /\ api_key = FALSE
    /\ pc = "function"
    /\ attempts = 0
    /\ failures = 0
    /\ product_faqs = None

InitParse ==
    /\ faqs \in Texts
    /\ serp_results = NoSerp
    /\ called = "none"
    /\ qas = <<>>
    /\ ret = None
    /\ GenIdle
    /\ MainIdle

\* faqs_to_jsonld(faqs, product_keywords), lines 224-252
Call_faqs_to_jsonld ==
    /\ called = "none"
    /\ called' = "faqs_to_jsonld"
    /\ qas' = ParseFaqs(faqs)
    /\ ret' = JsonLd(ParseFaqs(faqs))
    /\ UNCHANGED <<faqs, serp_results, genVars, mainVars>>

NextParse == Call_faqs_to_jsonld

SpecParse == InitParse /\ [][NextParse]_vars

(***************************************************************************)
(* Claims about faqs_to_jsonld, checked under SpecParse.                   *)
(***************************************************************************)
Parsed == called = "faqs_to_jsonld"

EndsInMark(s) == Len(s) > 0 /\ s[Len(s)] = "?"

\* "What is X?"
WhatIsX == <<"W", "h", "a", "t", " ", "i", "s", " ", "X", "?">>

\* "What is Y?"
WhatIsY == <<"W", "h", "a", "t", " ", "i", "s", " ", "Y", "?">>

\* "Answer A."
AnswerA == <<"A", "n", "s", "w", "e", "r", " ", "A", ".">>

\* "Answer B."
AnswerB == <<"A", "n", "s", "w", "e", "r", " ", "B", ".">>

\* C1: for the text "What is X?Answer A.What is Y?Answer B." the parser
\* yields exactly the two pairs ("What is X?", "Answer A.") and
\* ("What is Y?", "Answer B."), in this order.
C1_FallbackExampleTwoPairs ==
    (Parsed /\ faqs = FallbackExample) =>
        qas = <<[question |-> WhatIsX, answer |-> AnswerA],
                [question |-> WhatIsY, answer |-> AnswerB]>>

\* A line "<digits>.<question text>?<answer text>" with non-empty question and
\* answer texts; the blanks after "." and "?" belong to the texts, so the
\* claim's "<digits>. <question text>? <answer text>" is a case of it.
IsNumberedForm(line) ==
    \E d \in 1..Len(line), p \in 1..Len(line) :
        /\ \A i \in 1..d : IsDigit(line[i])
        /\ d + 1 <= Len(line)
        /\ line[d + 1] = "."
        /\ p > d + 2
        /\ line[p] = "?"
        /\ p < Len(line)

\* The pair is cut from the line at one of its "?": the question is the
\* trimmed text between the index's "." and that "?", with the "?" put back,
\* and the answer is the trimmed text after it.
PairOfLine(pair, line) ==
    \E p \in 1..Len(line) :
        /\ line[p] = "?"
        /\ pair.question = Strip(SubSeq(line, DigitRun(line) + 2, p - 1)) \o <<"?">>
        /\ pair.answer = Strip(SubSeq(line, p + 1, Len(line)))

AllNumberedForm(text) ==
    LET lines == Split(text, "\n")
    IN  \A i \in 1..Len(lines) : IsNumberedForm(lines[i])

\* C2: when every line of the text has the numbered form, the parser yields
\* exactly one pair per line, in line order; each question ends in "?" and
\* each answer is the trimmed text after the question's "?" on its line.
C2_NumberedOnePairPerLine ==
    (Parsed /\ AllNumberedForm(faqs)) =>
        LET lines == Split(faqs, "\n")
        IN  /\ Len(qas) = Len(lines)
            /\ \A i \in 1..Len(lines) :
                  /\ EndsInMark(qas[i].question)
                  /\ PairOfLine(qas[i], lines[i])

\* Two numbered lines, the second with a "?" inside its answer, parsed into
\* two pairs.
C2_Witness ==
    /\ Parsed
    /\ faqs = LineNumbered \o <<"\n">> \o LineNumberedTwice
    /\ Len(qas) = 2
    /\ qas[1].answer = <<"a", " ", "a">>

\* The indices of the lines of the text that have the numbered form.
MatchingLines(text) ==
    LET lines == Split(text, "\n")
    IN  {i \in 1..Len(lines) : IsNumberedForm(lines[i])}

\* The k-th smallest member of a set of positions; 0 for k = 0 and past for a
\* k beyond the set.
Nth(positions, k, past) ==
    IF k = 0 THEN 0
    ELSE IF k > Cardinality(positions) THEN past
    ELSE CHOOSE p \in positions : Cardinality({q \in positions : q <= p}) = k

\* The positions of "?" in the text.
Marks(text) == {p \in 1..Len(text) : text[p] = "?"}

\* The k-th piece of the text when it is cut at every "?".
PieceBetweenMarks(text, k) ==
    SubSeq(text, Nth(Marks(text), k - 1, Len(text) + 1) + 1,
                 Nth(Marks(text), k, Len(text) + 1) - 1)

\* C12: the parser works line by line, strict first: when at least one line
\* has the numbered form the result is exactly one pair per such line, in
\* line order, every other line is dropped and the split on "?" adds
\* nothing; when no line has the form the result is the split on "?" of the
\* whole text, pieces paired two by two; the result is empty only when no
\* line has the form and the text has no "?" to split on.
C12_StrictThenFallback ==
    Parsed =>
        LET lines == Split(faqs, "\n")
            matching == MatchingLines(faqs)
            pieces == Cardinality(Marks(faqs)) + 1
        IN  /\ matching # {} =>
                  /\ Len(qas) = Cardinality(matching)
                  /\ \A k \in 1..Len(qas) :
                        /\ EndsInMark(qas[k].question)
                        /\ PairOfLine(qas[k], lines[Nth(matching, k, 0)])
            /\ matching = {} =>
                  /\ Len(qas) = pieces \div 2
                  /\ \A k \in 1..Len(qas) :
                        /\ qas[k].question =
                              Strip(PieceBetweenMarks(faqs, 2 * k - 1)) \o <<"?">>
                        /\ qas[k].answer = Strip(PieceBetweenMarks(faqs, 2 * k))
            /\ qas = <<>> => (matching = {} /\ Marks(faqs) = {})

\* A numbered line, a continuation line of its answer and a second numbered
\* line: two pairs, the continuation dropped although the text has four "?".
C12_Witness ==
    /\ Parsed
    /\ faqs = LineNumbered \o <<"\n">> \o LineContinuation \o <<"\n">> \o LineNumberedTwice
    /\ MatchingLines(faqs) = {1, 3}
    /\ Len(qas) = 2
    /\ qas[2].answer = <<"a", "?", " ", "a">>

\* C9: the document has exactly one mainEntity item per parsed pair, in the
\* order of the pairs, name being the question and acceptedAnswer.text the
\* answer; every name ends in "?"; three numbered lines give three items.
C9_OneItemPerPair ==
    Parsed =>
        /\ Len(ret.mainEntity) = Len(qas)
        /\ \A i \in 1..Len(qas) :
              /\ ret.mainEntity[i].name = qas[i].question
              /\ ret.mainEntity[i].acceptedAnswer.text = qas[i].answer
              /\ EndsInMark(ret.mainEntity[i].name)
        /\ (AllNumberedForm(faqs) /\ Len(Split(faqs, "\n")) = 3) =>
              Len(ret.mainEntity) = 3

\* The end-to-end example: three numbered lines, three items.
C9_Witness ==
    /\ Parsed
    /\ faqs = EndToEndExample
    /\ Len(ret.mainEntity) = 3
    /\ ret.mainEntity[3].name = <<"W", "a", "r", "r", "a", "n", "t", "y", "?">>

(***************************************************************************)
(* str.lower(), str.split() and the "in" test on strings.                  *)
(***************************************************************************)
UpperLetters ==
    <<"A", "B", "C", "D", "E", "F", "G", "H", "I", "J", "K", "L", "M",
      "N", "O", "P", "Q", "R", "S", "T", "U", "V", "W", "X", "Y", "Z">>

LowerLetters ==
    <<"a", "b", "c", "d", "e", "f", "g", "h", "i", "j", "k", "l", "m",
      "n", "o", "p", "q", "r", "s", "t", "u", "v", "w", "x", "y", "z">>

LowerChar(c) ==
    IF \E i \in 1..Len(UpperLetters) : UpperLetters[i] = c
    THEN LowerLetters[CHOOSE i \in 1..Len(UpperLetters) : UpperLetters[i] = c]
    ELSE c

Lower(s) == [i \in 1..Len(s) |-> LowerChar(s[i])]

\* x in y, for strings: x occurs in y as a contiguous run (the empty string
\* occurs in every string)
IsSubstring(x, y) ==
    \E i \in 0..(Len(y) - Len(x)) : SubSeq(y, i + 1, i + Len(x)) = x

\* str.split() without a separator: the maximal runs of non-whitespace
Words(s) ==
    LET starts == {i \in 1..Len(s) :
                      ~IsSpace(s[i]) /\ (i = 1 \/ IsSpace(s[i - 1]))}
        n == Cardinality(starts)
        Start(k) == CHOOSE i \in starts : Cardinality({j \in starts : j <= i}) = k
        End(i) == LET stops == {j \in i..Len(s) : IsSpace(s[j])}
                  IN  IF stops = {} THEN Len(s) ELSE MinOf(stops) - 1
    IN  [k \in 1..n |-> SubSeq(s, Start(k), End(Start(k)))]

RECURSIVE Flatten(_, _)
Flatten(seqs, n) == IF n = 0 THEN <<>> ELSE Flatten(seqs, n - 1) \o seqs[n]

(***************************************************************************)
(* check_faq_uniqueness, lines 275-286.                                    *)
(***************************************************************************)
\* lines 277-280: " ".join(title + " " + snippet for each organic item).lower()
SerpText(serp) ==
    LET items == [i \in 1..Len(serp.organic) |->
                     serp.organic[i].title \o <<" ">> \o serp.organic[i].snippet]
    IN  Lower(JoinWith(items, <<" ">>, Len(items)))

\* The mutant of CheckFaqUniqueness that compares the line without .lower().
CheckFaqUniquenessCased(text, serp) ==
    LET lines == Split(text, "\n")
    IN  [i \in 1..Len(lines) |->
            <<lines[i], ~IsSubstring(Strip(lines[i]), SerpText(serp))>>]

\* lines 281-286: one (line, is_unique) tuple per line of the text
CheckFaqUniqueness(text, serp) ==
    LET lines == Split(text, "\n")
    IN  [i \in 1..Len(lines) |->
            <<lines[i], ~IsSubstring(Lower(Strip(lines[i])), SerpText(serp))>>]

(***************************************************************************)
(* SpecUnique: check_faq_uniqueness applied to one text and one set of     *)
(* search results.                                                         *)
(***************************************************************************)
UniqueAlphabet == {"a", "A", " ", "\n"}

UniqueTexts == UNION {[1..n -> UniqueAlphabet] : n \in 0..MaxFaqLen}

UniqueItems ==
    {[title |-> <<"A">>, snippet |-> <<"a">>],
     [title |-> <<>>, snippet |-> <<>>],
     [title |-> <<"a", " ", "A">>, snippet |-> <<" ", "a">>]}

SeqsUpTo(S, n) == UNION {[1..k -> S] : k \in 0..n}

InitUnique ==
    /\ faqs \in UniqueTexts
    /\ serp_results \in
          {[organic |-> o, relatedSearches |-> <<>>] : o \in SeqsUpTo(UniqueItems, MaxOrganic)}
    /\ called = "none"
    /\ qas = <<>>
    /\ ret = None
    /\ GenIdle
    /\ MainIdle

\* check_faq_uniqueness(faqs, serp_results), lines 275-286
Call_check_faq_uniqueness ==
    /\ called = "none"
    /\ called' = "check_faq_uniqueness"
    /\ ret' = CheckFaqUniqueness(faqs, serp_results)
    /\ UNCHANGED <<faqs, serp_results, qas, genVars, mainVars>>

NextUnique == Call_check_faq_uniqueness

SpecUnique == InitUnique /\ [][NextUnique]_vars

(***************************************************************************)
(* Claims about check_faq_uniqueness, checked under SpecUnique.            *)
(***************************************************************************)
Checked == called = "check_faq_uniqueness"

IsBlank(line) == \A i \in 1..Len(line) : IsSpace(line[i])

\* C3: every blank line (empty or whitespace-only) of the text is marked
\* unique, for every search context, also one with no organic results.
C3_BlankLineIsUnique ==
    Checked =>
        \A i \in 1..Len(ret) : IsBlank(ret[i][1]) => ret[i][2] = TRUE

\* The titles and snippets of the organic results, each title followed by a
\* blank and its snippet, the items separated by a blank, lowercased.
OrganicConcat ==
    LET o == serp_results.organic
        TitleSnippets[k \in 0..Len(o)] ==
            IF k = 0 THEN <<>>
            ELSE (IF k = 1 THEN <<>> ELSE TitleSnippets[k - 1] \o <<" ">>)
                 \o Lower(o[k].title) \o <<" ">> \o Lower(o[k].snippet)
    IN  TitleSnippets[Len(o)]

\* C4: one (line, is_unique) entry per line of the text, in line order;
\* is_unique is false iff the trimmed, lowercased line is a substring of the
\* lowercased concatenation of the organic titles and snippets; a line equal,
\* ignoring case, to an organic snippet is marked not unique.
C4_UniqueIffNotSubstring ==
    Checked =>
        LET lines == Split(faqs, "\n")
        IN  /\ Len(ret) = Len(lines)
            /\ \A i \in 1..Len(lines) :
                  /\ ret[i][1] = lines[i]
                  /\ ret[i][2] = FALSE <=>
                        IsSubstring(Lower(Strip(lines[i])), OrganicConcat)
                  /\ (\E k \in 1..Len(serp_results.organic) :
                         Lower(lines[i]) = Lower(serp_results.organic[k].snippet))
                        => ret[i][2] = FALSE

\* A two-line text: the first line is an organic snippet in another case and
\* is flagged, the second occurs nowhere in the results and is not.
C4_Witness ==
    /\ Checked
    /\ faqs = <<"A", "\n", "a", "a">>
    /\ serp_results.organic = <<[title |-> <<"A">>, snippet |-> <<"a">>]>>
    /\ ret = << <<(<<"A">>), FALSE>>, <<(<<"a", "a">>), TRUE>> >>

(***************************************************************************)
(* extract_seo_keywords_from_serp, lines 158-183.                          *)
(***************************************************************************)
TopKeywords == 15

MinWordLen == 3

\* lines 165-181: the words in the order the loops visit them: per organic
\* item its title's words then its snippet's, then each related query's
VisitedWords(serp) ==
    LET perItem == [i \in 1..Len(serp.organic) |->
                       Words(serp.organic[i].title) \o Words(serp.organic[i].snippet)]
        perQuery == [i \in 1..Len(serp.relatedSearches) |->
                        Words(serp.relatedSearches[i].query)]
    IN  Flatten(perItem, Len(perItem)) \o Flatten(perQuery, Len(perQuery))

\* The mutant of Keep that also lets words of 3 characters through.
KeepFromThree(word) == Len(word) >= MinWordLen

\* lines 170, 173, 180: if len(word) > 3
Keep(word) == Len(word) > MinWordLen

\* lines 171, 174, 181: keywords.add(word.lower()) for the words kept; the
\* set's members, listed here by first insertion
RECURSIVE Inserted(_, _)
Inserted(words, n) ==
    IF n = 0 THEN <<>>
    ELSE LET before == Inserted(words, n - 1)
             w == Lower(words[n])
         IN  IF Keep(words[n]) /\ ~\E i \in 1..Len(before) : before[i] = w
             THEN Append(before, w)
             ELSE before

Keywords(serp) ==
    LET words == VisitedWords(serp) IN Inserted(words, Len(words))

\* line 183, list(keywords): a set of str is iterated in the order of the
\* hashes, which are salted per process (PYTHONHASHSEED), not in insertion
\* order.  The orders modelled: the members rotated by seed places, read
\* forwards or backwards.
SetOrder(members, seed, backwards) ==
    LET n == Len(members)
        rotated == [i \in 1..n |-> members[((i - 1 + seed) % n) + 1]]
    IN  IF backwards THEN [i \in 1..n |-> rotated[n + 1 - i]] ELSE rotated

\* line 183, [:15]
Take(s, n) == IF Len(s) <= n THEN s ELSE SubSeq(s, 1, n)

ExtractSeoKeywords(serp, seed, backwards) ==
    Take(SetOrder(Keywords(serp), seed, backwards), TopKeywords)

(***************************************************************************)
(* SpecKeywords: extract_seo_keywords_from_serp applied to one set of      *)
(* search results.                                                         *)
(***************************************************************************)
Rep(c, n) == [i \in 1..n |-> c]

Sentence(words) == JoinWith(words, <<" ">>, Len(words))

\* "aaaa bbbb cccc dddd" / "aaaaa bbbbb AAAA ccccc ddddd"
KeywordItemA ==
    [title |-> Sentence(<<Rep("a", 4), Rep("b", 4), Rep("c", 4), Rep("d", 4)>>),
     snippet |-> Sentence(<<Rep("a", 5), Rep("b", 5), Rep("A", 4), Rep("c", 5), Rep("d", 5)>>)]

\* "aaaaaa bbbbbb aaa cccccc dddddd" / "aaaaaaa bbbbbbb ccccccc ddddddd"
KeywordItemB ==
    [title |-> Sentence(<<Rep("a", 6), Rep("b", 6), Rep("a", 3), Rep("c", 6), Rep("d", 6)>>),
     snippet |-> Sentence(<<Rep("a", 7), Rep("b", 7), Rep("c", 7), Rep("d", 7)>>)]

\* "" / "aaa  Bbbb"
KeywordItemC ==
    [title |-> <<>>,
     snippet |-> <<"a", "a", "a", " ", " ", "B", "b", "b", "b">>]

KeywordItems == {KeywordItemA, KeywordItemB, KeywordItemC}

\* "bbbb eeee" and "EEEE ee"
KeywordQueries ==
    {[query |-> Sentence(<<Rep("b", 4), Rep("e", 4)>>)],
     [query |-> Sentence(<<Rep("E", 4), Rep("e", 2)>>)]}

InitKeywords ==
    /\ faqs = <<>>
    /\ serp_results \in
          {[organic |-> o, relatedSearches |-> r] :
              o \in SeqsUpTo(KeywordItems, MaxOrganic),
              r \in SeqsUpTo(KeywordQueries, MaxRelated)}
    /\ called = "none"
    /\ qas = <<>>
    /\ ret = None
    /\ GenIdle
    /\ MainIdle

\* extract_seo_keywords_from_serp(serp_results), lines 158-183
Call_extract_seo_keywords_from_serp ==
    /\ called = "none"
    /\ called' = "extract_seo_keywords_from_serp"
    /\ \E seed \in 0..MaxHashSeed, backwards \in BOOLEAN :
          ret' = ExtractSeoKeywords(serp_results, seed, backwards)
    /\ UNCHANGED <<faqs, serp_results, qas, genVars, mainVars>>

NextKeywords == Call_extract_seo_keywords_from_serp

SpecKeywords == InitKeywords /\ [][NextKeywords]_vars

(***************************************************************************)
(* Claims about extract_seo_keywords_from_serp, checked under SpecKeywords.*)
(***************************************************************************)
Extracted == called = "extract_seo_keywords_from_serp"

RECURSIVE FirstAppearances(_, _)
FirstAppearances(words, n) ==
    IF n = 0 THEN <<>>
    ELSE LET before == FirstAppearances(words, n - 1)
         IN  IF \E i \in 1..Len(before) : before[i] = words[n]
             THEN before ELSE Append(before, words[n])

\* The keywords in the order the claim gives: the organic titles, then the
\* organic snippets, then the related-search queries.
ClaimedOrder ==
    LET o == serp_results.organic
        r == serp_results.relatedSearches
        titles == [i \in 1..Len(o) |-> Words(o[i].title)]
        snippets == [i \in 1..Len(o) |-> Words(o[i].snippet)]
        queries == [i \in 1..Len(r) |-> Words(r[i].query)]
        all == Flatten(titles, Len(o)) \o Flatten(snippets, Len(o)) \o Flatten(queries, Len(r))
        kept == SelectSeq(all, LAMBDA w : Len(w) > 3)
        lowered == [i \in 1..Len(kept) |-> Lower(kept[i])]
    IN  FirstAppearances(lowered, Len(lowered))

\* C5: the result is the keywords in order of first appearance (titles, then
\* snippets, then related queries) cut to its first 15 entries, hence the same
\* list for the same search results on every call.
C5_FirstAppearanceOrder ==
    Extracted =>
        ret = IF Len(ClaimedOrder) <= 15 THEN ClaimedOrder ELSE SubSeq(ClaimedOrder, 1, 15)

\* C6: at most 15 entries, none of length 3 or less, each lowercase, none
\* twice; search results with no organic results and no related searches
\* give the empty list.
C6_KeywordsWellFormed ==
    Extracted =>
        /\ Len(ret) <= 15
        /\ \A i \in 1..Len(ret) :
              /\ Len(ret[i]) > 3
              /\ ret[i] = Lower(ret[i])
              /\ \A j \in 1..Len(ret) : ret[i] = ret[j] => i = j
        /\ (serp_results.organic = <<>> /\ serp_results.relatedSearches = <<>>)
              => ret = <<>>

\* Sixteen distinct keywords in the results, fifteen returned.
C6_Witness ==
    /\ Extracted
    /\ serp_results.organic = <<KeywordItemA, KeywordItemB>>
    /\ Len(ClaimedOrder) = 16
    /\ Len(ret) = 15

(***************************************************************************)
(* generate_product_faqs, lines 185-222: the prompt.  A prompt is the      *)
(* sequence of its pieces: the literal texts of the f-strings and the      *)
(* interpolated values.                                                    *)
(***************************************************************************)
OrganicInPrompt == 5

NoDetails == [scraped |-> FALSE]

\* bool(x) for the str of a select box
TruthyText(x) == x # ""

\* An argument that is a list or None (seo_keywords=None is the default).
NoList == [is_none |-> TRUE]

List(items) == [is_none |-> FALSE, items |-> items]

\* bool(x) for a list or None
TruthyList(x) == ~x.is_none /\ x.items # <<>>

\* lines 140-156: format_serp_for_prompt
FormatSerpForPrompt(serp, people_also_ask) ==
    LET top == Take(serp.organic, OrganicInPrompt)
        organicLines == [i \in 1..Len(top) |->
            <<ToString(i), ".", " ">> \o top[i].title \o <<":", " ">>
                \o top[i].snippet \o <<"\n">>]
        relatedLines == [i \in 1..Len(serp.relatedSearches) |->
            <<"-", " ">> \o serp.relatedSearches[i].query \o <<"\n">>]
        askLines == [i \in 1..Len(people_also_ask) |->
            <<"-", " ", people_also_ask[i], "\n">>]
        organicPart == IF serp.organic # <<>>
                       THEN <<"Top Organic Results:", "\n">>
                                \o Flatten(organicLines, Len(organicLines))
                       ELSE <<>>
        relatedPart == IF serp.relatedSearches # <<>>
                       THEN <<"\n", "Related Searches:", "\n">>
                                \o Flatten(relatedLines, Len(relatedLines))
                       ELSE <<>>
        askPart == IF people_also_ask # <<>>
                   THEN <<"\n", "People Also Ask:", "\n">>
                            \o Flatten(askLines, Len(askLines))
                   ELSE <<>>
    IN  Strip(organicPart \o relatedPart \o askPart)

\* lines 188-202: details_section
DetailsSection(d) ==
    IF ~d.scraped THEN <<>>
    ELSE LET featureLines == [i \in 1..Len(d.features) |-> <<"- ", d.features[i], "\n">>]
         IN  <<"Product Details from URL:\n">>
             \o (IF d.title # "" THEN <<"Title: ", d.title, "\n">> ELSE <<>>)
             \o (IF d.description # "" THEN <<"Description: ", d.description, "\n">> ELSE <<>>)
             \o (IF d.features # <<>>
                 THEN <<"Features:\n">> \o Flatten(featureLines, Len(featureLines))
                 ELSE <<>>)
             \o (IF d.price # "" THEN <<"Price: ", d.price, "\n">> ELSE <<>>)
             \o (IF d.rating # "" THEN <<"Rating: ", d.rating, "\n">> ELSE <<>>)

\* line 204
ToneSection(faq_tone) ==
    IF TruthyText(faq_tone) /\ faq_tone # "Default"
    THEN <<"\nTone/Style: ", faq_tone, ".">>
    ELSE <<>>

\* lines 205-211
LengthSection(faq_length) ==
    IF faq_length = "Short (20-30 words)" THEN <<"\nEach answer should be 20-30 words.">>
    ELSE IF faq_length = "Medium (40-50 words)" THEN <<"\nEach answer should be 40-50 words.">>
    ELSE IF faq_length = "Long (60+ words)" THEN <<"\nEach answer should be at least 60 words.">>
    ELSE <<>>

\* The mutant of SeoSection that ignores the inclusion flag.
SeoSectionAlways(include_seo_keywords, seo_keywords) ==
    IF TruthyList(seo_keywords)
    THEN <<"\nIncorporate these SEO keywords naturally: ">>
             \o JoinWith(seo_keywords.items, <<", ">>, Len(seo_keywords.items)) \o <<".">>
    ELSE <<>>

\* lines 212-214
SeoSection(include_seo_keywords, seo_keywords) ==
    IF include_seo_keywords /\ TruthyList(seo_keywords)
    THEN <<"\nIncorporate these SEO keywords naturally: ">>
             \o JoinWith(seo_keywords.items, <<", ">>, Len(seo_keywords.items)) \o <<".">>
    ELSE <<>>

\* lines 216-217: the instruction header
Header(req) ==
    <<"You are an expert e-commerce content writer. Generate ",
      ToString(req.faq_count),
      " unique, concise FAQs for the product '",
      req.product_keywords,
      "' on ",
      req.ecommerce_platform,
      ". ",
      "Use the following SERP research and product details for inspiration. Write in ",
      req.faq_language,
      ". Format as a numbered list for easy copy-paste.">>

\* lines 215-221
BuildPrompt(req, serp) ==
    Header(req)
    \o ToneSection(req.faq_tone)
    \o LengthSection(req.faq_length)
    \o SeoSection(req.include_seo_keywords, req.seo_keywords)
    \o <<"\n\n">>
    \o DetailsSection(req.product_details)
    \o <<"\n">>
    \o FormatSerpForPrompt(serp, req.people_also_ask)
    \o <<"\n">>

(***************************************************************************)
(* generate_text_with_exception_handling, lines 52-78, under               *)
(* @retry(wait=wait_random_exponential(min=1, max=60),                     *)
(*        stop=stop_after_attempt(6)).                                     *)
(***************************************************************************)
StopAfterAttempt == 6

\* "a? a", nothing, and "1. a? a a \n\n  a a"
ServiceTexts == {LineBare, <<>>, Join(<<LineNumbered, LineBlank, LineContinuation>>, 3)}

\* What one call of the service does: it answers with a text, or it raises.
ServiceOutcomes ==
    {[ok |-> TRUE, text |-> t] : t \in ServiceTexts} \cup {[ok |-> FALSE, text |-> None]}

\* lines 54-78, one run of the function body: without a key it returns None
\* (line 58); the service's text is returned (line 75); whatever the service
\* raises is caught by "except Exception" and None is returned (lines 76-78),
\* so the body never raises into the retry wrapper.
Body(key, outcome) ==
    IF ~key THEN [raised |-> FALSE, value |-> None, failed |-> FALSE]
    ELSE IF outcome.ok THEN [raised |-> FALSE, value |-> outcome.text, failed |-> FALSE]
    ELSE [raised |-> FALSE, value |-> None, failed |-> TRUE]

\* line 52: the wrapper runs the body again only when the body raised and
\* fewer than 6 attempts were made; a raise on the 6th attempt is a RetryError
AfterAttempt(body, made) ==
    IF body.raised /\ made < StopAfterAttempt THEN "calling"
    ELSE IF body.raised THEN "retry_error"
    ELSE "returned"

\* One attempt of the retry wrapper.
Attempt ==
    /\ pc = "calling"
    /\ \E outcome \in ServiceOutcomes :
          LET body == Body(api_key, outcome)
          IN  /\ attempts' = attempts + 1
              /\ failures' = failures + (IF body.failed THEN 1 ELSE 0)
              /\ pc' = AfterAttempt(body, attempts + 1)
              /\ product_faqs' = IF body.raised THEN product_faqs ELSE body.value
    /\ UNCHANGED <<faqs, serp_results, called, qas, ret, request, prompt, api_key, mainVars>>

(***************************************************************************)
(* SpecPrompt: generate_product_faqs applied to one set of arguments.      *)
(***************************************************************************)
\* "aaaa" and "bbbb"
SeoKeywordLists ==
    {NoList, List(<<>>), List(<<Rep("a", 4)>>), List(<<Rep("a", 4), Rep("b", 4)>>)}

Tones == {"Default", "", "Casual"}

Lengths == {"Default", "Short (20-30 words)", "Medium (40-50 words)", "Long (60+ words)"}

SomeDetails ==
    [scraped |-> TRUE, title |-> "Earbuds X", description |-> "",
     features |-> <<"Active noise cancelling with 8 hours of play time">>,
     price |-> "", rating |-> "4.5 out of 5 stars"]

\* product_url and what extract_product_details_from_url made of it (line 186)
UrlDetails ==
    {<<"", NoDetails>>, <<"https://shop.example/x", NoDetails>>,
     <<"https://shop.example/x", SomeDetails>>}

PromptSerps ==
    {NoSerp,
     [organic |-> <<KeywordItemC>>, relatedSearches |-> <<>>],
     [organic |-> <<>>, relatedSearches |-> <<[query |-> Rep("e", 4)]>>]}

Requests ==
    {[product_keywords |-> "wireless earbuds", ecommerce_platform |-> "Amazon",
      product_url |-> ud[1], product_details |-> ud[2],
      people_also_ask |-> paa, faq_language |-> "English", faq_count |-> 3,
      faq_tone |-> tone, faq_length |-> length,
      include_seo_keywords |-> inc, seo_keywords |-> kws] :
        ud \in UrlDetails, paa \in {<<>>, <<"Are earbuds waterproof?">>},
        tone \in Tones, length \in Lengths, inc \in BOOLEAN, kws \in SeoKeywordLists}

InitPrompt ==
    /\ faqs = <<>>
    /\ serp_results \in PromptSerps
    /\ called = "none"
    /\ qas = <<>>
    /\ ret = None
    /\ request \in Requests
    /\ prompt = None
    /\ api_key \in BOOLEAN
    /\ pc = "function"
    /\ attempts = 0
    /\ failures = 0
    /\ product_faqs = None
    /\ MainIdle

\* lines 185-222 up to the call of the generation client
Call_generate_product_faqs ==
    /\ pc = "function"
    /\ called = "none"
    /\ prompt' = BuildPrompt(request, serp_results)
    /\ attempts' = 0
    /\ failures' = 0
    /\ pc' = "calling"
    /\ UNCHANGED <<faqs, serp_results, called, qas, ret, request, api_key, product_faqs, mainVars>>

\* line 222: the client's value is returned
Return_generate_product_faqs ==
    /\ pc = "returned"
    /\ called = "none"
    /\ called' = "generate_product_faqs"
    /\ ret' = product_faqs
    /\ pc' = "function"
    /\ UNCHANGED <<faqs, serp_results, qas, request, prompt, api_key, attempts, failures, product_faqs, mainVars>>

NextPrompt ==
    \/ Call_generate_product_faqs
    \/ Attempt
    \/ Return_generate_product_faqs

SpecPrompt == InitPrompt /\ [][NextPrompt]_vars

(***************************************************************************)
(* Claims about the prompt, checked under SpecPrompt.                      *)
(***************************************************************************)
Composed == prompt # None

IndexOf(seq, piece) == MinOf({i \in 1..Len(seq) : seq[i] = piece})

Has(seq, piece) == \E i \in 1..Len(seq) : seq[i] = piece

\* What stands in the prompt between the end of the instruction header and
\* the blank line that closes the instructions.
Clauses ==
    SubSeq(prompt,
           IndexOf(prompt, ". Format as a numbered list for easy copy-paste.") + 1,
           IndexOf(prompt, "\n\n") - 1)

ToneMark == "\nTone/Style: "

LengthMarks ==
    {"\nEach answer should be 20-30 words.",
     "\nEach answer should be 40-50 words.",
     "\nEach answer should be at least 60 words."}

SeoMark == "\nIncorporate these SEO keywords naturally: "

HasLength(seq) == \E m \in LengthMarks : Has(seq, m)

LengthIndex(seq) == MinOf({i \in 1..Len(seq) : seq[i] \in LengthMarks})

ToneSet == request.faq_tone \notin {"", "Default"}

LengthSet ==
    request.faq_length \in
        {"Short (20-30 words)", "Medium (40-50 words)", "Long (60+ words)"}

SeoSet ==
    /\ request.include_seo_keywords
    /\ ~request.seo_keywords.is_none
    /\ request.seo_keywords.items # <<>>

\* C8: each optional clause is in the prompt exactly when its option is set
\* (tone: non-empty and not "Default"; length: a non-default bucket; SEO:
\* flag set and keyword list non-empty); nothing stands in the place of an
\* absent clause; the clauses present come in the order tone, length, SEO
\* right after the instruction header.
C8_OptionalClauses ==
    Composed =>
        /\ Has(Clauses, ToneMark) <=> ToneSet
        /\ HasLength(Clauses) <=> LengthSet
        /\ Has(Clauses, SeoMark) <=> SeoSet
        /\ Has(prompt, ToneMark) => Has(Clauses, ToneMark)
        /\ HasLength(prompt) => HasLength(Clauses)
        /\ Has(prompt, SeoMark) => Has(Clauses, SeoMark)
        /\ (~ToneSet /\ ~LengthSet /\ ~SeoSet) => Clauses = <<>>
        /\ Clauses # <<>> =>
              Clauses[1] \in {ToneMark, SeoMark} \cup LengthMarks
        /\ (ToneSet /\ LengthSet) =>
              IndexOf(Clauses, ToneMark) < LengthIndex(Clauses)
        /\ (ToneSet /\ SeoSet) =>
              IndexOf(Clauses, ToneMark) < IndexOf(Clauses, SeoMark)
        /\ (LengthSet /\ SeoSet) =>
              LengthIndex(Clauses) < IndexOf(Clauses, SeoMark)
        /\ Len(Clauses) =
              (IF ToneSet THEN 3 ELSE 0) + (IF LengthSet THEN 1 ELSE 0)
              + (IF SeoSet
                 THEN 2 + Len(JoinWith(request.seo_keywords.items, <<", ">>,
                                       Len(request.seo_keywords.items)))
                 ELSE 0)

\* A prompt with all three clauses, the SEO clause naming two keywords.
C8_Witness ==
    /\ Composed
    /\    /\ ToneSet /\ LengthSet /\ SeoSet
          /\ Has(Clauses, ToneMark) /\ HasLength(Clauses) /\ Has(Clauses, SeoMark)
          /\ Len(request.seo_keywords.items) = 2

(***************************************************************************)
(* main, lines 289-463: one session, one script run after another.         *)
(***************************************************************************)
ProductKeywords == {"", "wireless earbuds"}

ProductUrls == {"", "https://shop.example/x"}

SessionTones == {"Default", "Casual"}

\* What get_serp_results can come back with (line 340): nothing (no key, an
\* error status, a network error) or one page of results.
SessionSerps ==
    {NoSerp,
     [organic |-> <<KeywordItemC>>,
      relatedSearches |-> <<[query |-> Sentence(<<Rep("b", 4), Rep("e", 4)>>)]>>]}

\* lines 371-381
InputState(keywords, url, tone, seo_keywords) ==
    [product_keywords |-> keywords,
     ecommerce_platform |-> "Amazon",
     product_url |-> url,
     faq_count |-> 5,
     faq_language |-> "English",
     faq_tone |-> tone,
     faq_length |-> "Default",
     include_seo_keywords |-> TRUE,
     seo_keywords |-> seo_keywords]

\* The mutant of AfterInputCheck that records the new snapshot but leaves the
\* stored result in place.
AfterInputCheckKeeping(session, snapshot) ==
    IF session.last_input_state # snapshot
    THEN [session EXCEPT !.last_input_state = snapshot]
    ELSE session

\* lines 391-396: a changed input snapshot clears the stored result
AfterInputCheck(session, snapshot) ==
    IF session.last_input_state # snapshot
    THEN [last_input_state |-> snapshot,
          product_faqs |-> None,
          jsonld |-> NoneRecord,
          faqs_ready |-> FALSE]
    ELSE session

\* lines 322-396: the script runs from the top: the widgets are read, the
\* search is made, the snapshot is compared with the stored one
ScriptRun ==
    /\ pc = "idle"
    /\ \E keywords \in ProductKeywords, url \in ProductUrls, tone \in SessionTones,
          serp \in SessionSerps, seed \in 0..MaxHashSeed, backwards \in BOOLEAN :
          /\ keywords = "" => serp = NoSerp
          /\ serp_results' = serp
          /\ input_state' =
                InputState(keywords, url, tone, ExtractSeoKeywords(serp, seed, backwards))
    /\ session_state' = AfterInputCheck(session_state, input_state')
    /\ api_key' \in BOOLEAN
    /\ pressed' \in BOOLEAN
    /\ parsed' = FALSE
    /\ shown' = <<>>
    /\ UNCHANGED generated_in
    /\ product_faqs' = None
    /\ attempts' = 0
    /\ failures' = 0
    /\ request' = NoRequest
    /\ prompt' = None
    /\ pc' = "button"
    /\ UNCHANGED funVars

\* line 401: keywords or a URL must be given
HasProduct(snapshot) == snapshot.product_keywords # "" \/ snapshot.product_url # ""

\* lines 399-402: the button was not pressed, or nothing was entered
NoGeneration ==
    /\ pc = "button"
    /\ ~(pressed /\ HasProduct(input_state))
    /\ pc' = "display"
    /\ UNCHANGED <<funVars, serp_results, request, prompt, api_key, attempts, failures,
                   product_faqs, session_state, input_state, pressed, parsed, shown,
                   generated_in>>

\* lines 404-408 and 185-221: generate_product_faqs is called with the inputs
\* of this run and composes the prompt
CallGeneration ==
    /\ pc = "button"
    /\ pressed
    /\ HasProduct(input_state)
    /\ \E details \in {NoDetails, SomeDetails},
          paa \in {<<>>, <<"Are earbuds waterproof?">>} :
          /\ input_state.product_url = "" => details = NoDetails
          /\ serp_results = NoSerp => paa = <<>>
          /\ request' =
                [product_keywords |-> input_state.product_keywords,
                 ecommerce_platform |-> input_state.ecommerce_platform,
                 product_url |-> input_state.product_url,
                 product_details |-> details,
                 people_also_ask |-> paa,
                 faq_language |-> input_state.faq_language,
                 faq_count |-> input_state.faq_count,
                 faq_tone |-> input_state.faq_tone,
                 faq_length |-> input_state.faq_length,
                 include_seo_keywords |-> input_state.include_seo_keywords,
                 seo_keywords |-> List(input_state.seo_keywords)]
    /\ prompt' = BuildPrompt(request', serp_results)
    /\ attempts' = 0
    /\ failures' = 0
    /\ pc' = "calling"
    /\ UNCHANGED <<funVars, serp_results, api_key, product_faqs,
                   session_state, input_state, pressed, parsed, shown, generated_in>>

\* line 409: if product_faqs
Truthy(text) == text # None /\ text # <<>>

\* The mutant of Stored that sets product_faqs and faqs_ready outside the if.
StoredUnguarded(session, text) ==
    IF Truthy(text)
    THEN [session EXCEPT !.product_faqs = text,
                         !.jsonld = JsonLd(ParseFaqs(text)),
                         !.faqs_ready = TRUE]
    ELSE [session EXCEPT !.product_faqs = text, !.faqs_ready = TRUE]

\* lines 409-412
Stored(session, text) ==
    IF Truthy(text)
    THEN [session EXCEPT !.product_faqs = text,
                         !.jsonld = JsonLd(ParseFaqs(text)),
                         !.faqs_ready = TRUE]
    ELSE session

\* lines 404-412: generate_product_faqs has returned
StoreResult ==
    /\ pc = "returned"
    /\ session_state' = Stored(session_state, product_faqs)
    /\ parsed' = Truthy(product_faqs)
    /\ generated_in' = IF Truthy(product_faqs) THEN input_state ELSE generated_in
    /\ pc' = "display"
    /\ UNCHANGED <<funVars, serp_results, request, prompt, api_key, attempts, failures,
                   product_faqs, input_state, pressed, shown>>

\* lines 418-424: a line is rendered as a potential duplicate unless it is
\* unique or blank
Rendered(text, serp) ==
    LET uniqueness == CheckFaqUniqueness(text, serp)
    IN  [i \in 1..Len(uniqueness) |->
            [line |-> uniqueness[i][1],
             duplicate |-> ~(uniqueness[i][2] \/ Strip(uniqueness[i][1]) = <<>>)]]

\* lines 414-427: the results are displayed if there are any; the run ends
Display ==
    /\ pc = "display"
    /\ shown' = IF session_state.faqs_ready /\ Truthy(session_state.product_faqs)
                THEN Rendered(session_state.product_faqs, serp_results)
                ELSE <<>>
    /\ pc' = "idle"
    /\ UNCHANGED <<funVars, serp_results, request, prompt, api_key, attempts, failures,
                   product_faqs, session_state, input_state, pressed, parsed, generated_in>>

Init ==
    /\ faqs = <<>>
    /\ serp_results = NoSerp
    /\ called = "none"
    /\ qas = <<>>
    /\ ret = None
    /\ request = NoRequest
    /\ prompt = None
    /\ api_key = FALSE
    /\ pc = "idle"
    /\ attempts = 0
    /\ failures = 0
    /\ product_faqs = None
    /\ MainIdle

Next ==
    \/ ScriptRun
    \/ NoGeneration
    \/ CallGeneration
    \/ Attempt
    \/ StoreResult
    \/ Display

Spec == Init /\ [][Next]_vars

(***************************************************************************)
(* Claims about the generation client and the button, checked under Spec.  *)
(***************************************************************************)
\* C7: when an attempt fails the client makes a further attempt, up to 6 in
\* all, and it returns None after a failure only when the attempts are
\* exhausted.
C7_RetriesUntilExhausted ==
    (pc = "returned" /\ product_faqs = None /\ failures > 0) =>
        attempts = StopAfterAttempt

\* C10: when the generation client returns no result, the press stores
\* nothing: from the generation call to the end of the button's handling
\* product_faqs, jsonld and faqs_ready of the session keep their values and
\* faqs_to_jsonld is not called.
C10_NoResultStoresNothing ==
    [][(pc = "calling" \/ (pc = "returned" /\ product_faqs = None)) =>
          (session_state' = session_state /\ parsed' = FALSE)]_vars

\* The service failed on a press made while an earlier result was stored: the
\* earlier result is still there and nothing was parsed.
C10_Witness ==
    /\ pc = "display"
    /\ pressed
    /\ attempts = 1
    /\ failures = 1
    /\ product_faqs = None
    /\ ~parsed
    /\ session_state.faqs_ready
    /\ session_state.product_faqs = LineBare

(***************************************************************************)
(* Claims about the session over many script runs, checked under Spec.     *)
(***************************************************************************)
FaqsDisplayable == session_state.faqs_ready /\ Truthy(session_state.product_faqs)

\* The step that runs the script from the top down to the button.
ReachesButton == pc = "idle" /\ pc' = "button"

\* C11: in every run whose input snapshot differs from the stored
\* last_input_state, product_faqs, jsonld and faqs_ready are cleared and
\* last_input_state is set to the new snapshot before the button is handled;
\* hence whenever FAQs are displayable (faqs_ready and product_faqs
\* non-empty) the stored text was generated in a run whose snapshot equals
\* the snapshot of the current run.
C11_StaleResultsCleared ==
    /\ [][(ReachesButton /\ session_state.last_input_state # input_state') =>
             /\ session_state'.product_faqs = None
             /\ session_state'.jsonld = NoneRecord
             /\ session_state'.faqs_ready = FALSE
             /\ session_state'.last_input_state = input_state']_vars
    /\ [](FaqsDisplayable =>
             /\ generated_in = input_state
             /\ session_state.last_input_state = input_state)

\* A run has just reached the button with a snapshot other than the one a
\* result was stored under: the result is gone.
C11_Witness ==
    /\ pc = "button"
    /\ generated_in # NoneRecord
    /\ generated_in # input_state
    /\ session_state.last_input_state = input_state
    /\ session_state.product_faqs = None
    /\ ~session_state.faqs_ready

====
